---- MODULE Spec2Model ----
(***************************************************************************)
(* A model of download.py, the CTFd download tool: one run of main() is a  *)
(* list fetch, then per challenge a detail fetch, a metadata write and the *)
(* downloads of the attached files, then the README index.                 *)
(*                                                                         *)
(* Text is a sequence of characters; a character is a one-character string *)
(* or, for a non-ASCII code point, its name ("U+1F532").  File contents    *)
(* and paths are such sequences, so naming and formatting are computed.    *)
(***************************************************************************)
EXTENDS Integers, Sequences, FiniteSets

VARIABLES
    text,        \* slugify: the argument
    slugOut,     \* slugify: the value returned, <<>> before the call
    remoteList,  \* the server's answer to GET /challenges
    remoteDetail,\* the server's answers to GET /challenges/<id>, by id, once given
    update,      \* args.update
    run,         \* which invocation of main() this is (1 or 2)
    pc,          \* where main() is
    exitStatus,  \* the process's exit status, -1 while it runs
    exc,         \* the exception that ended the process, "None" if none
    challenges,  \* main: the list fetch_challenges returned
    i,           \* organize_challenges: index of `challenge` in `challenges`
    challenge_data, \* organize_challenges: the record used for the challenge
    j,           \* organize_challenges: index of `file_url` in the files list
    dl,          \* download_challenge_assets: the download in progress
    fileTask,    \* the rich progress task of the file download
    taskDone,    \* completed percentage of the challenge's progress task
    links_to_review, \* organize_challenges: the links found so far
    fs,          \* the file system: path -> content, for the files that exist
    opened,      \* every path handed to open() for writing, over all runs
    trace,       \* what this run has done so far, in order
    firstFs,     \* the file system as the first run left it
    firstTrace   \* the trace of the first run

vars == <<text, slugOut, remoteList, remoteDetail, update, run, pc, exitStatus,
          exc, challenges, i, challenge_data, j, dl, fileTask, taskDone,
          links_to_review, fs, opened, trace, firstFs, firstTrace>>

None == "None"

-----------------------------------------------------------------------------
(* Characters *)

UpperAZ == <<"A","B","C","D","E","F","G","H","I","J","K","L","M",
             "N","O","P","Q","R","S","T","U","V","W","X","Y","Z">>

LowerAZ == <<"a","b","c","d","e","f","g","h","i","j","k","l","m",
             "n","o","p","q","r","s","t","u","v","w","x","y","z">>

Digits == {"0","1","2","3","4","5","6","7","8","9"}

\* What \s matches in a str pattern: ASCII whitespace and Unicode spaces.
Whitespace == {" ", "\t", "\n", "U+00A0"}

\* str.lower() on one character.
LowerChar(c) ==
    IF \E k \in 1..Len(UpperAZ) : UpperAZ[k] = c
    THEN LowerAZ[CHOOSE k \in 1..Len(UpperAZ) : UpperAZ[k] = c]
    ELSE IF c = "U+00C9" THEN "U+00E9" ELSE c

\* str.lower()
Lower(s) == [k \in 1..Len(s) |-> LowerChar(s[k])]

\* The class [a-z0-9-] of the pattern [^a-z0-9-].
IsSlugChar(c) ==
    \/ \E k \in 1..Len(LowerAZ) : LowerAZ[k] = c
    \/ c \in Digits
    \/ c = "-"

\* re.sub(r"[\s]+", "-", s): every maximal run of whitespace becomes one "-".
RECURSIVE SubWhitespace(_)
SubWhitespace(s) ==
    IF s = <<>> THEN <<>>
    ELSE IF Head(s) \in Whitespace
         THEN IF Len(s) > 1 /\ s[2] \in Whitespace
              THEN SubWhitespace(Tail(s))
              ELSE <<"-">> \o SubWhitespace(Tail(s))
         ELSE <<Head(s)>> \o SubWhitespace(Tail(s))

\* re.sub(r"[^a-z0-9-]", "", s)
SubDisallowed(s) == SelectSeq(s, IsSlugChar)

RECURSIVE LStrip(_, _)
LStrip(s, c) == IF s # <<>> /\ Head(s) = c THEN LStrip(Tail(s), c) ELSE s

RECURSIVE RStrip(_, _)
RStrip(s, c) ==
    IF s # <<>> /\ s[Len(s)] = c THEN RStrip(SubSeq(s, 1, Len(s) - 1), c) ELSE s

\* str.strip(c) for a one-character c
Strip(s, c) == RStrip(LStrip(s, c), c)

\* The marker "🔲 " every slug starts with.
Marker == <<"U+1F532", " ">>

\* A slugify that forgets to strip the "-" at the ends.
slugify_nostrip(t) == Marker \o SubDisallowed(SubWhitespace(Lower(t)))

\* A slugify that filters before it replaces whitespace.
slugify_filterfirst(t) ==
    Marker \o Strip(SubWhitespace(SubDisallowed(Lower(t))), "-")

slugify(t) == Marker \o Strip(SubDisallowed(SubWhitespace(Lower(t))), "-")

-----------------------------------------------------------------------------
(* Paths and URLs *)

\* os.path.join(a, b) on POSIX: an absolute b discards a.
Join(a, b) ==
    IF b # <<>> /\ Head(b) = "/" THEN b
    ELSE IF a = <<>> \/ a[Len(a)] = "/" THEN a \o b
    ELSE a \o <<"/">> \o b

\* The index of the first c in s, 0 if there is none (str.find, from 1).
Find(s, c) ==
    IF \E k \in 1..Len(s) : s[k] = c
    THEN CHOOSE k \in 1..Len(s) : s[k] = c /\ \A m \in 1..(k - 1) : s[m] # c
    ELSE 0

\* The index of the last c in s, 0 if there is none.
RFind(s, c) ==
    IF \E k \in 1..Len(s) : s[k] = c
    THEN CHOOSE k \in 1..Len(s) : s[k] = c /\ \A m \in (k + 1)..Len(s) : s[m] # c
    ELSE 0

\* s.split(c)[-1]
LastPart(s, c) == SubSeq(s, RFind(s, c) + 1, Len(s))

\* s.split(c, 1)[0]
Before(s, c) == IF Find(s, c) = 0 THEN s ELSE SubSeq(s, 1, Find(s, c) - 1)

IsAlpha(c) ==
    \E k \in 1..Len(LowerAZ) : LowerAZ[k] = c \/ UpperAZ[k] = c

\* urllib.parse.scheme_chars
IsSchemeChar(c) == IsAlpha(c) \/ c \in Digits \/ c \in {"+", "-", "."}

\* urlsplit: what is left of the URL once its scheme is taken off.
AfterScheme(u) ==
    LET k == Find(u, ":")
    IN  IF k > 1 /\ IsAlpha(u[1]) /\ \A m \in 1..(k - 1) : IsSchemeChar(u[m])
        THEN SubSeq(u, k + 1, Len(u))
        ELSE u

\* urlsplit: what is left once "//netloc" is taken off (the netloc ends at the
\* first "/", "?" or "#").
AfterNetloc(u) ==
    IF Len(u) >= 2 /\ u[1] = "/" /\ u[2] = "/"
    THEN LET rest == SubSeq(u, 3, Len(u))
             ends == {k \in 1..Len(rest) : rest[k] \in {"/", "?", "#"}}
         IN  IF ends = {} THEN <<>>
             ELSE SubSeq(rest, CHOOSE k \in ends : \A m \in ends : k <= m, Len(rest))
    ELSE u

\* urlparse(u).path, for a URL without ";": the fragment goes first, then
\* the query.
UrlPath(u) == Before(Before(AfterNetloc(AfterScheme(u)), "#"), "?")

\* A file name that keeps the whole path of the URL.
FileName_wholepath(file_url) == UrlPath(file_url)

\* urlparse(file_url).path.split("/")[-1]
FileName(file_url) == LastPart(UrlPath(file_url), "/")

-----------------------------------------------------------------------------
(* re.findall(r'(https?://[^\s]+)', s) *)

StartsWith(s, p) == Len(s) >= Len(p) /\ SubSeq(s, 1, Len(p)) = p

\* The longest prefix of s without whitespace.
RECURSIVE NonSpaceRun(_)
NonSpaceRun(s) ==
    IF s = <<>> \/ Head(s) \in Whitespace THEN <<>>
    ELSE <<Head(s)>> \o NonSpaceRun(Tail(s))

\* The match of https?://[^\s]+ at the start of s, <<>> if there is none.
LinkAt(s) ==
    LET http  == <<"h","t","t","p",":","/","/">>
        https == <<"h","t","t","p","s",":","/","/">>
        p     == IF StartsWith(s, https) THEN https
                 ELSE IF StartsWith(s, http) THEN http ELSE <<>>
        body  == NonSpaceRun(SubSeq(s, Len(p) + 1, Len(s)))
    IN  IF p = <<>> \/ body = <<>> THEN <<>> ELSE p \o body

RECURSIVE FindLinks(_)
FindLinks(s) ==
    IF s = <<>> THEN <<>>
    ELSE IF LinkAt(s) # <<>>
         THEN <<LinkAt(s)>> \o FindLinks(SubSeq(s, Len(LinkAt(s)) + 1, Len(s)))
         ELSE FindLinks(Tail(s))

-----------------------------------------------------------------------------
(* Constants of the program and its command line *)

\* CHALLENGES_FOLDER = "📂 Challenges"
CHALLENGES_FOLDER == <<"U+1F4C2"," ","C","h","a","l","l","e","n","g","e","s">>

UnnamedChallenge ==
    <<"U","n","n","a","m","e","d"," ","C","h","a","l","l","e","n","g","e">>

Uncategorized == <<"U","n","c","a","t","e","g","o","r","i","z","e","d">>

NoDescription ==
    <<"N","o"," ","d","e","s","c","r","i","p","t","i","o","n"," ",
      "p","r","o","v","i","d","e","d",".">>

\* iter_content(chunk_size=1024)
ChunkSize == 1024

\* args.output and args.name
OutputDir == <<"o","u","t">>

CtfName == <<"C","T","F">>

ReadmePath == Join(OutputDir, <<"R","E","A","D","M","E",".","m","d">>)

ChallengesDir == Join(OutputDir, CHALLENGES_FOLDER)

-----------------------------------------------------------------------------
(* JSON objects: `has` holds the keys the object has; a field whose key is *)
(* not in `has` holds nothing that is read.                                *)

Dict(has, id, name, category, description, files) ==
    [has |-> has, id |-> id, name |-> name, category |-> category,
     description |-> description, files |-> files]

EmptyDict == Dict({}, 0, <<>>, <<>>, <<>>, <<>>)

\* d.get(key, default)
Get(d, key, default) == IF key \in d.has THEN d[key] ELSE default

\* An HTTP response body: text that is not JSON ("malformed"), JSON that is
\* no object, as null or [] ("nonobject"), an object without "data"
\* ("nodata"), or an object whose "data" is `data`.
Response(kind, data) == [kind |-> kind, data |-> data]

-----------------------------------------------------------------------------
(* The remote CTFd instance *)

\* The longest challenge list the server returns.
MaxChallenges == 2

NameA == <<"A"," ","b">>
NameB == <<"a","-","b","!">>
NameC == <<".",".","/","c">>

CatWeb == <<"w","e","b">>
CatSlash == <<"p","/","w">>

\* The challenges the server has, in the order of their ids.  The first two
\* names have the same slug; the fourth summary has no name.
SummaryPool ==
    << Dict({"id", "name", "category"}, 1, NameA, CatWeb, <<>>, <<>>),
       Dict({"id", "name"},             2, NameB, <<>>,   <<>>, <<>>),
       Dict({"id", "name", "category"}, 3, NameC, CatSlash, <<>>, <<>>),
       Dict({"id", "category"},         4, <<>>,  CatWeb, <<>>, <<>>) >>

\* The sets of ids of at most MaxChallenges challenges.
IdSets == {S \in SUBSET (1..Len(SummaryPool)) : Cardinality(S) <= MaxChallenges}

\* The summaries with the ids of S, in the order of the ids.
RECURSIVE ListOf(_)
ListOf(S) ==
    IF S = {} THEN <<>>
    ELSE LET m == CHOOSE k \in S : \A n \in S : k <= n
         IN  <<SummaryPool[m]>> \o ListOf(S \ {m})

ListResponses ==
    {Response("malformed", <<>>), Response("nonobject", <<>>),
     Response("nodata", <<>>)}
    \cup {Response("data", ListOf(S)) : S \in IdSets}

\* The files the server has: a file with two chunks, an empty file whose
\* URL ends in "..", and a file of one chunk whose URL has a query.
UrlA == <<"/","f","/","a",".","z">>
UrlB == <<"/","f","/",".",".">>
UrlC == <<"h",":","/","/","x","/","c","?","t","=","/","e">>

FileSize(url) ==
    IF url = UrlA THEN ChunkSize + 1 ELSE IF url = UrlB THEN 0 ELSE ChunkSize

DescPlain == <<"n","o"," ","l","i","n","k">>
DescLink == <<"a","t"," ","h","t","t","p",":","/","/","h","/","x"," ","!">>

\* What the server may answer to the detail fetch of summary s: the three
\* unusable bodies, an empty "data", and a record with the summary's name
\* and category, with or without a description and files, or with another
\* name and category.
DetailResponses(s) ==
    {Response("malformed", EmptyDict), Response("nonobject", EmptyDict),
     Response("nodata", EmptyDict), Response("data", EmptyDict),
     Response("data", [s EXCEPT !.has = @ \cup {"description"},
                                !.description = DescPlain]),
     Response("data", [s EXCEPT !.has = @ \cup {"description", "files"},
                                !.description = DescLink,
                                !.files = <<UrlA, UrlB>>]),
     Response("data", Dict({"id", "category", "files"}, s.id, <<>>, CatSlash,
                           <<>>, <<UrlC>>))}

-----------------------------------------------------------------------------
(* Files, progress tasks and the trace *)

\* What a file holds: the text of a Markdown file, the lines of the index
\* after its heading, or the first `size` bytes of the remote file `from`.
File(kind, txt, entries, from, size) ==
    [kind |-> kind, text |-> txt, entries |-> entries, from |-> from,
     size |-> size]

\* The file system f after `content` is stored at `path`.
Store(f, path, content) ==
    [q \in DOMAIN f \cup {path} |-> IF q = path THEN content ELSE f[q]]

\* The text of the file at path, <<>> when there is no such file.
TextAt(f, path) == IF path \in DOMAIN f THEN f[path].text ELSE <<>>

\* The text of a file opened in mode "a" and written to.
WriteText_append(old, new) == old \o new

\* The text of a file opened in mode "w" and written to: the old text goes.
WriteText(old, new) == new

Event(op, ch, f, path) == [op |-> op, ch |-> ch, f |-> f, path |-> path]

IdleDownload ==
    [url |-> <<>>, destination |-> <<>>, hasLength |-> FALSE,
     total_size |-> 0, remaining |-> 0]

\* progress.add_task(description, total=t)
AddTask(t) == [total |-> t, completed |-> 0]

-----------------------------------------------------------------------------
(* The functions of download.py *)

\* fetch_challenges: the list returned, or the exception that leaves it.
\* The missing "data" of an object is answered by .get's default.
fetch_challenges(resp) ==
    CASE resp.kind = "malformed" -> [raised |-> "SystemExit", value |-> <<>>]
      [] resp.kind = "nonobject" -> [raised |-> "AttributeError", value |-> <<>>]
      [] resp.kind = "nodata"    -> [raised |-> None, value |-> <<>>]
      [] OTHER                   -> [raised |-> None, value |-> resp.data]

\* fetch_challenge_details: the record returned, None (isNone), or the
\* exception that leaves it: only JSONDecodeError and KeyError are caught.
fetch_challenge_details(resp) ==
    CASE resp.kind \in {"malformed", "nodata"} ->
            [raised |-> None, isNone |-> TRUE, value |-> EmptyDict]
      [] resp.kind = "nonobject" ->
            [raised |-> "TypeError", isNone |-> TRUE, value |-> EmptyDict]
      [] OTHER ->
            [raised |-> None, isNone |-> FALSE, value |-> resp.data]

\* `details or challenge`: None and the empty dict are both false.
OrChallenge(r, challenge) ==
    IF r.isNone \/ r.value.has = {} THEN challenge ELSE r.value

\* save_challenge_metadata: file_path
MetadataPath(challenge, output_path) ==
    Join(output_path,
         slugify(Get(challenge, "name", UnnamedChallenge)) \o <<".","m","d">>)

\* save_challenge_metadata: what is written
MetadataText(challenge) ==
    <<"#", " ">> \o Get(challenge, "name", UnnamedChallenge)
    \o <<"\n", "\n", ">", " ">>
    \o Get(challenge, "description", NoDescription)
    \o <<"\n", "\n">> \o [k \in 1..19 |-> "-"] \o <<"\n", "\n">>

\* organize_challenges: challenge_name
ChallengeName(challenge) == Get(challenge, "name", UnnamedChallenge)

\* organize_challenges: challenge_file_path, which is computed and not used
ChallengeFilePath(data, challenge) ==
    Join(ChallengesDir,
         Get(data, "category", Uncategorized) \o <<"_">>
         \o slugify(ChallengeName(challenge)) \o <<".","m","d">>)

\* organize_challenges: download_path
DownloadPath(challenge, file_url) ==
    Join(ChallengesDir,
         slugify(ChallengeName(challenge)) \o <<"_">> \o FileName(file_url))

\* organize_challenges: the target of the link of one line of README.md
LinkTarget(challenge) ==
    CHALLENGES_FOLDER \o <<"/">> \o Get(challenge, "category", Uncategorized)
    \o <<"_">> \o slugify(ChallengeName(challenge)) \o <<".","m","d">>

\* organize_challenges: README.md
ReadmeFile(chs) ==
    File("readme",
         <<"#", " ">> \o CtfName
         \o <<"\n","\n","#","#"," ","C","h","a","l","l","e","n","g","e","s","\n","\n">>,
         [k \in 1..Len(chs) |->
             [label |-> ChallengeName(chs[k]), target |-> LinkTarget(chs[k])]],
         <<>>, 0)

-----------------------------------------------------------------------------
(* One run of main() *)

slugVars == <<text, slugOut>>
remoteVars == <<remoteList, remoteDetail>>
firstVars == <<firstFs, firstTrace>>
loopVars == <<challenges, i, challenge_data, j>>
progressVars == <<fileTask, taskDone>>
diskVars == <<fs, opened>>

\* The `challenge` of the for loop.
Challenge == challenges[i]

\* challenge_data.get("files", [])
Files == Get(challenge_data, "files", <<>>)

\* The for loop over the challenges that stops after the first one.
LoopDone_first == i > 1 \/ i > Len(challenges)

\* The for loop over the challenges has no challenge left.
LoopDone == i > Len(challenges)

\* The process ends with the uncaught exception e (sys.exit(1) raises
\* SystemExit): the exit status is 1.
Exits(e) == pc' = "exited" /\ exitStatus' = 1 /\ exc' = e

\* main, to the call of organize_challenges
FetchChallenges ==
    /\ pc = "main"
    /\ LET r == fetch_challenges(remoteList)
       IN  IF r.raised # None
           THEN Exits(r.raised) /\ UNCHANGED challenges
           ELSE /\ challenges' = r.value
                /\ pc' = "loop"
                /\ UNCHANGED <<exitStatus, exc>>
    /\ trace' = Append(trace, Event("list", 0, 0, <<>>))
    /\ UNCHANGED <<slugVars, remoteVars, firstVars, update, run, i,
                   challenge_data, j, dl, progressVars, links_to_review, diskVars>>

\* organize_challenges: the head of the loop, to the detail fetch.  The
\* server's answer for an id is chosen when it is first asked for.
FetchDetails ==
    /\ pc = "loop"
    /\ ~LoopDone
    /\ \E resp \in IF Challenge.id \in DOMAIN remoteDetail
                   THEN {remoteDetail[Challenge.id]}
                   ELSE DetailResponses(Challenge) :
          /\ remoteDetail' =
                [k \in DOMAIN remoteDetail \cup {Challenge.id} |->
                    IF k = Challenge.id THEN resp ELSE remoteDetail[k]]
          /\ LET r == fetch_challenge_details(resp)
             IN  IF r.raised # None
                 THEN Exits(r.raised) /\ UNCHANGED challenge_data
                 ELSE /\ challenge_data' = OrChallenge(r, Challenge)
                      /\ pc' = "save"
                      /\ UNCHANGED <<exitStatus, exc>>
    /\ taskDone' = 10
    /\ trace' = Append(trace, Event("detail", i, 0, <<>>))
    /\ UNCHANGED <<slugVars, remoteList, firstVars, update, run, challenges, i,
                   j, dl, fileTask, links_to_review, diskVars>>

\* organize_challenges: challenge_file_path is computed, and the file is
\* written where save_challenge_metadata puts it
SaveMetadata ==
    /\ pc = "save"
    /\ LET challenge_file_path == ChallengeFilePath(challenge_data, Challenge)
           file_path == MetadataPath(challenge_data, ChallengesDir)
       IN  /\ fs' = Store(fs, file_path,
                          File("md",
                               WriteText(TextAt(fs, file_path),
                                         MetadataText(challenge_data)),
                               <<>>, <<>>, 0))
           /\ opened' = opened \cup {file_path}
           /\ trace' = Append(trace, Event("meta", i, 0, file_path))
    /\ taskDone' = 50
    /\ j' = 1
    /\ pc' = "files"
    /\ UNCHANGED <<slugVars, remoteVars, firstVars, update, run, exitStatus, exc,
                   challenges, i, challenge_data, dl, fileTask, links_to_review>>

\* organize_challenges: the next file; download_challenge_assets, to the
\* open of the destination.  The response has a content-length or not.
StartDownload ==
    /\ pc = "files"
    /\ j <= Len(Files)
    /\ \E hasLength \in BOOLEAN :
          LET file_url == Files[j]
              download_path == DownloadPath(Challenge, file_url)
          IN  /\ fileTask' = AddTask(0)
              /\ dl' = [url |-> file_url, destination |-> download_path,
                        hasLength |-> hasLength,
                        total_size |-> IF hasLength THEN FileSize(file_url) ELSE 0,
                        remaining |-> FileSize(file_url)]
              /\ fs' = Store(fs, download_path,
                             File("asset", <<>>, <<>>, file_url, 0))
              /\ opened' = opened \cup {download_path}
              /\ trace' = Append(trace, Event("dl_open", i, j, download_path))
    /\ pc' = "stream"
    /\ UNCHANGED <<slugVars, remoteVars, firstVars, update, run, exitStatus, exc,
                   loopVars, taskDone, links_to_review>>

\* download_challenge_assets: one chunk of iter_content
WriteChunk ==
    /\ pc = "stream"
    /\ dl.remaining > 0
    /\ LET n == IF dl.remaining < ChunkSize THEN dl.remaining ELSE ChunkSize
       IN  /\ fs' = [fs EXCEPT ![dl.destination].size = @ + n]
           /\ fileTask' = [fileTask EXCEPT !.completed = @ + n]
           /\ dl' = [dl EXCEPT !.remaining = @ - n]
    /\ UNCHANGED <<slugVars, remoteVars, firstVars, update, run, pc, exitStatus,
                   exc, loopVars, taskDone, links_to_review, opened, trace>>

\* download_challenge_assets: the body is exhausted
FinishDownload ==
    /\ pc = "stream"
    /\ dl.remaining = 0
    /\ trace' = Append(trace, Event("dl_done", i, j, dl.destination))
    /\ dl' = IdleDownload
    /\ j' = j + 1
    /\ pc' = "files"
    /\ UNCHANGED <<slugVars, remoteVars, firstVars, update, run, exitStatus, exc,
                   challenges, i, challenge_data, progressVars, links_to_review,
                   diskVars>>

\* organize_challenges: no file is left; the links of the description
ScanLinks ==
    /\ pc = "files"
    /\ j > Len(Files)
    /\ links_to_review' =
          links_to_review \o FindLinks(Get(challenge_data, "description", <<>>))
    /\ taskDone' = 100
    /\ i' = i + 1
    /\ pc' = "loop"
    /\ UNCHANGED <<slugVars, remoteVars, firstVars, update, run, exitStatus, exc,
                   challenges, challenge_data, j, dl, fileTask, diskVars, trace>>

\* organize_challenges: README.md, and the return of main
WriteReadme ==
    /\ pc = "loop"
    /\ LoopDone
    /\ fs' = Store(fs, ReadmePath, ReadmeFile(challenges))
    /\ opened' = opened \cup {ReadmePath}
    /\ trace' = Append(trace, Event("readme", 0, 0, ReadmePath))
    /\ pc' = "done"
    /\ exitStatus' = 0
    /\ UNCHANGED <<slugVars, remoteVars, firstVars, update, run, exc, loopVars,
                   dl, progressVars, links_to_review>>

-----------------------------------------------------------------------------
(* What the transport and the disk can do to a run: requests raises when   *)
(* the server cannot be reached or the transfer breaks, open raises when   *)
(* the file cannot be created.  Nothing in download.py catches either.     *)

\* fetch_challenges: requests.get raises
ListFetchRaises ==
    /\ pc = "main"
    /\ Exits("ConnectionError")
    /\ trace' = Append(trace, Event("list", 0, 0, <<>>))
    /\ UNCHANGED <<slugVars, remoteVars, firstVars, update, run, loopVars, dl,
                   progressVars, links_to_review, diskVars>>

\* fetch_challenge_details: requests.get raises
DetailFetchRaises ==
    /\ pc = "loop"
    /\ ~LoopDone
    /\ Exits("ConnectionError")
    /\ taskDone' = 10
    /\ trace' = Append(trace, Event("detail", i, 0, <<>>))
    /\ UNCHANGED <<slugVars, remoteVars, firstVars, update, run, loopVars, dl,
                   fileTask, links_to_review, diskVars>>

\* save_challenge_metadata: open raises
MetadataOpenFails ==
    /\ pc = "save"
    /\ Exits("OSError")
    /\ opened' = opened \cup {MetadataPath(challenge_data, ChallengesDir)}
    /\ UNCHANGED <<slugVars, remoteVars, firstVars, update, run, loopVars, dl,
                   progressVars, links_to_review, fs, trace>>

\* download_challenge_assets: session.get raises, or open raises
DownloadStartFails ==
    /\ pc = "files"
    /\ j <= Len(Files)
    /\ \E e \in {"ConnectionError", "OSError"} :
          /\ Exits(e)
          /\ opened' = IF e = "OSError"
                       THEN opened \cup {DownloadPath(Challenge, Files[j])}
                       ELSE opened
    /\ fileTask' = AddTask(0)
    /\ UNCHANGED <<slugVars, remoteVars, firstVars, update, run, loopVars, dl,
                   taskDone, links_to_review, fs, trace>>

\* download_challenge_assets: iter_content raises, the transfer is broken
\* off and what was written stays
DownloadInterrupted ==
    /\ pc = "stream"
    /\ dl.remaining > 0
    /\ Exits("ConnectionError")
    /\ UNCHANGED <<slugVars, remoteVars, firstVars, update, run, loopVars, dl,
                   progressVars, links_to_review, diskVars, trace>>

\* organize_challenges: the open of README.md raises
ReadmeOpenFails ==
    /\ pc = "loop"
    /\ LoopDone
    /\ Exits("OSError")
    /\ opened' = opened \cup {ReadmePath}
    /\ UNCHANGED <<slugVars, remoteVars, firstVars, update, run, loopVars, dl,
                   progressVars, links_to_review, fs, trace>>

\* The tool is run again, with the same arguments, after a run that
\* completed: the server answers as it did.
RunAgain ==
    /\ pc = "done"
    /\ run = 1
    /\ run' = 2
    /\ firstFs' = fs
    /\ firstTrace' = trace
    /\ pc' = "main"
    /\ exitStatus' = -1
    /\ exc' = None
    /\ challenges' = <<>>
    /\ i' = 1
    /\ challenge_data' = EmptyDict
    /\ j' = 1
    /\ dl' = IdleDownload
    /\ fileTask' = AddTask(0)
    /\ taskDone' = 0
    /\ links_to_review' = <<>>
    /\ trace' = <<>>
    /\ UNCHANGED <<slugVars, remoteVars, update, diskVars>>

\* The state of a process that has just started, on an empty output tree.
Started ==
    /\ run = 1
    /\ pc = "main"
    /\ exitStatus = -1
    /\ exc = None
    /\ challenges = <<>>
    /\ i = 1
    /\ challenge_data = EmptyDict
    /\ j = 1
    /\ dl = IdleDownload
    /\ fileTask = AddTask(0)
    /\ taskDone = 0
    /\ links_to_review = <<>>
    /\ fs = <<>>
    /\ opened = {}
    /\ trace = <<>>
    /\ firstFs = <<>>
    /\ firstTrace = <<>>
    /\ remoteDetail = <<>>

Init ==
    /\ Started
    /\ remoteList \in ListResponses
    /\ update \in BOOLEAN
    /\ text = <<>>
    /\ slugOut = <<>>

Next ==
    \/ FetchChallenges
    \/ FetchDetails
    \/ SaveMetadata
    \/ StartDownload
    \/ WriteChunk
    \/ FinishDownload
    \/ ScanLinks
    \/ WriteReadme
    \/ ListFetchRaises
    \/ DetailFetchRaises
    \/ MetadataOpenFails
    \/ DownloadStartFails
    \/ DownloadInterrupted
    \/ ReadmeOpenFails
    \/ RunAgain

Spec == Init /\ [][Next]_vars

-----------------------------------------------------------------------------
(* slugify on its own: every text of at most MaxLen characters of the      *)
(* alphabet, and the example of the documentation.                         *)

\* The longest text slugify is given.
MaxLen == 3

SlugAlphabet == {"A", "b", "1", "-", " ", "\t", "!", "/", "U+00C9"}

SqlExample ==
    <<"S","Q","L"," ","I","n","j","e","c","t","i","o","n"," ","1","0","1",
      "!","!","!">>

SlugInputs ==
    UNION {[1..n -> SlugAlphabet] : n \in 0..MaxLen} \cup {SqlExample}

SlugInit ==
    /\ Started
    /\ remoteList = Response("nodata", <<>>)
    /\ update = FALSE
    /\ text \in SlugInputs
    /\ slugOut = <<>>

CallSlugify ==
    /\ slugOut = <<>>
    /\ slugOut' = slugify(text)
    /\ UNCHANGED <<text, remoteVars, firstVars, update, run, pc, exitStatus, exc,
                   loopVars, dl, progressVars, links_to_review, diskVars, trace>>

SlugNext == CallSlugify

SlugSpec == SlugInit /\ [][SlugNext]_vars

-----------------------------------------------------------------------------
(* What the properties below speak of *)

Ended == pc \in {"done", "exited"}

\* The Markdown files of challenges in the file system f.
MdPaths(f) == {q \in DOMAIN f : f[q].kind = "md"}

HasEvent(t, op, ch, f) ==
    \E n \in DOMAIN t : t[n].op = op /\ t[n].ch = ch /\ t[n].f = f

\* The slug of the name of a summary.
SlugOf(challenge) == slugify(ChallengeName(challenge))

DistinctSlugs(chs) ==
    \A a, b \in DOMAIN chs : a # b => SlugOf(chs[a]) # SlugOf(chs[b])

\* The server's answer to the detail fetch of the k-th challenge was not
\* JSON or had no "data".
DetailFailed(k) ==
    /\ challenges[k].id \in DOMAIN remoteDetail
    /\ remoteDetail[challenges[k].id].kind \in {"malformed", "nonobject", "nodata"}

\* The record the run used for its k-th challenge, once fetched.
DataOf(k) ==
    OrChallenge(fetch_challenge_details(remoteDetail[challenges[k].id]),
                challenges[k])

FilesOf(k) == Get(DataOf(k), "files", <<>>)

\* The transport or the disk failed in this run.
Faulted == exc \in {"ConnectionError", "OSError"}

-----------------------------------------------------------------------------
(* C1.  Whatever subset of the detail fetches fails (a body that is not    *)
(* JSON, or JSON without the "data" field), a run over N summaries with    *)
(* pairwise distinct slugs, on which neither transport nor disk fails,     *)
(* ends with exit status 0, N metadata files and N index entries, and the  *)
(* metadata file of a challenge whose fetch failed is built from its       *)
(* summary.                                                                *)
C1_DegradedRunCompletes ==
    (/\ run = 1
     /\ remoteList.kind = "data"
     /\ DistinctSlugs(remoteList.data)
     /\ ~Faulted
     /\ Ended)
    => /\ exitStatus = 0
       /\ Cardinality(MdPaths(fs)) = Len(remoteList.data)
       /\ ReadmePath \in DOMAIN fs
       /\ Len(fs[ReadmePath].entries) = Len(remoteList.data)
       /\ \A k \in DOMAIN challenges :
             DetailFailed(k) =>
                LET q == MetadataPath(challenges[k], ChallengesDir)
                IN  q \in DOMAIN fs /\ fs[q].text = MetadataText(challenges[k])

(* C2.  A list response that is not JSON, or is an object without "data",  *)
(* aborts the run: the exit status is not 0, no detail fetch is issued and *)
(* no file is written.                                                     *)
C2_BadListAborts ==
    (run = 1 /\ remoteList.kind \in {"malformed", "nodata"})
    => /\ pc # "done"
       /\ Ended => exitStatus # 0
       /\ \A n \in DOMAIN trace : trace[n].op # "detail"
       /\ DOMAIN fs = {}

(* C3.  After a completed run the metadata file written for each challenge *)
(* of the list is at <output>/📂 Challenges/<category>_<slug>.md, the      *)
(* target of the challenge's link in the index.                            *)
C3_MetadataAtLinkTarget ==
    (run = 1 /\ pc = "done")
    => \A k \in DOMAIN challenges :
          LET target == Join(OutputDir, fs[ReadmePath].entries[k].target)
          IN  /\ target = Join(ChallengesDir,
                               Get(challenges[k], "category", Uncategorized)
                               \o <<"_">> \o SlugOf(challenges[k])
                               \o <<".","m","d">>)
              /\ \E n \in DOMAIN trace :
                    /\ trace[n].op = "meta"
                    /\ trace[n].ch = k
                    /\ trace[n].path = target
              /\ target \in MdPaths(fs)

\* The run was ended by a failure of one challenge's detail fetch or of one
\* of its downloads.
ChallengeFault ==
    /\ pc = "exited"
    /\ trace # <<>>
    /\ LET e == trace[Len(trace)]
       IN  \/ exc = "ConnectionError" /\ e.op = "detail"
           \/ /\ exc \in {"ConnectionError", "OSError"}
              /\ e.op \in {"meta", "dl_done", "dl_open"}
              /\ ~LoopDone

(* C4.  A detail fetch that cannot be reached, or a download that fails,   *)
(* does not abort the run: the later challenges are processed, the index   *)
(* is written and the exit status is 0.                                    *)
C4_FailureIsolated ==
    ChallengeFault
    => /\ exitStatus = 0
       /\ HasEvent(trace, "readme", 0, 0)
       /\ \A k \in DOMAIN challenges : k > i => HasEvent(trace, "meta", k, 0)

\* The k-th challenge had its metadata file when the second run began.
HadMetadata(k) ==
    \E m \in DOMAIN firstTrace :
        /\ firstTrace[m].op = "meta"
        /\ firstTrace[m].ch = k
        /\ firstTrace[m].path \in DOMAIN firstFs

(* C5.  With --update, a challenge whose metadata file exists before the   *)
(* run is skipped: no detail fetch, no metadata write and no download is   *)
(* made for it, and the index still lists it.                              *)
C5_UpdateSkipsExisting ==
    (update /\ run = 2)
    => /\ \A n \in DOMAIN trace :
             trace[n].op \in {"detail", "meta", "dl_open"}
                => ~HadMetadata(trace[n].ch)
       /\ pc = "done" => Len(fs[ReadmePath].entries) = Len(challenges)

-----------------------------------------------------------------------------
\* The characters slugify keeps from a lowercased text whatever is around
\* them.
IsAlnum(c) == IsSlugChar(c) /\ c # "-"

\* The slug without its marker.
Body(slug) == SubSeq(slug, Len(Marker) + 1, Len(slug))

(* C6.  slugify returns, for every text, the marker followed by a body     *)
(* that holds only [a-z0-9-], neither starts nor ends with "-", keeps the  *)
(* lowercased letters and digits of the text in their order, has a single  *)
(* "-" for a run of whitespace, and is empty when the text has no letter   *)
(* or digit; slugify("SQL Injection 101!!!") is "🔲 sql-injection-101".    *)
C6_Slugify ==
    slugOut # <<>>
    => LET body == Body(slugOut)
       IN  /\ StartsWith(slugOut, Marker)
           /\ \A k \in DOMAIN body : IsSlugChar(body[k])
           /\ body # <<>> => body[1] # "-" /\ body[Len(body)] # "-"
           /\ SelectSeq(body, IsAlnum) = SelectSeq(Lower(text), IsAlnum)
           /\ (\A k \in DOMAIN text : IsAlnum(LowerChar(text[k])) \/ text[k] \in Whitespace)
                 => \A k \in 1..(Len(body) - 1) : ~(body[k] = "-" /\ body[k + 1] = "-")
           /\ (\A k \in DOMAIN text : ~IsAlnum(LowerChar(text[k]))) => body = <<>>
           /\ text = <<"A", " ", "\t">> => body = <<"a">>
           /\ text = <<"b", "\t", "A">> => body = <<"b", "-", "a">>
           /\ text = <<"-", "1", "/">> => body = <<"1">>
           /\ text = SqlExample
                 => body = <<"s","q","l","-","i","n","j","e","c","t","i","o","n",
                             "-","1","0","1">>

\* slugify has been called on the example of the documentation, and on a
\* text of disallowed characters only.
C6_Witness ==
    /\ slugOut # <<>>
    /\ \/ text = SqlExample
       \/ text = <<"!", "/", "U+00C9">> /\ slugOut = Marker

(* C7.  A second run after a completed first run, against the same list    *)
(* and detail responses and without --update, creates no file that did not *)
(* exist, and when it has completed every metadata file has the name and   *)
(* the content the first run left (two challenges of one slug share a file *)
(* that holds the first one's text until the second one is written again). *)
C7_RerunIdentical ==
    (run = 2 /\ ~update)
    => /\ DOMAIN fs = DOMAIN firstFs
       /\ MdPaths(fs) = MdPaths(firstFs)
       /\ pc = "done" => \A q \in MdPaths(fs) : fs[q] = firstFs[q]

\* The second run has completed, having written two metadata files again.
C7_Witness ==
    /\ run = 2
    /\ ~update
    /\ pc = "done"
    /\ Cardinality(MdPaths(fs)) >= 2
    /\ HasEvent(trace, "meta", 2, 0)

-----------------------------------------------------------------------------
\* Where a step stands in a run: the list, then the challenges in list
\* order, each with its detail fetch, its metadata write and its downloads
\* in file order, opened and then done, then the index.
Key(e) ==
    CASE e.op = "list"    -> <<0, 0, 0, 0, 0>>
      [] e.op = "detail"  -> <<1, e.ch, 0, 0, 0>>
      [] e.op = "meta"    -> <<1, e.ch, 1, 0, 0>>
      [] e.op = "dl_open" -> <<1, e.ch, 2, e.f, 0>>
      [] e.op = "dl_done" -> <<1, e.ch, 2, e.f, 1>>
      [] OTHER            -> <<2, 0, 0, 0, 0>>

\* a comes before b in the order of the dictionary
LexLess(a, b) ==
    \E k \in DOMAIN a :
        a[k] < b[k] /\ \A m \in 1..(k - 1) : a[m] = b[m]

\* The k-th challenge has been processed to its end.
Complete(k) ==
    /\ HasEvent(trace, "detail", k, 0)
    /\ HasEvent(trace, "meta", k, 0)
    /\ \A f \in DOMAIN FilesOf(k) :
          HasEvent(trace, "dl_open", k, f) /\ HasEvent(trace, "dl_done", k, f)

(* C8.  The steps of a run are in one strict order: challenges in list     *)
(* order, the detail fetch of a challenge only after everything of the     *)
(* challenges before it, then its metadata write, then its downloads one   *)
(* at a time in the order of the record's file list; the index is written  *)
(* once, after the last challenge is processed to its end.                 *)
C8_SequentialOrder ==
    /\ \A m, n \in DOMAIN trace :
          m < n => LexLess(Key(trace[m]), Key(trace[n]))
    /\ \A n \in DOMAIN trace :
          LET e == trace[n]
          IN  /\ e.op = "detail" =>
                    /\ e.ch \in DOMAIN challenges
                    /\ \A k \in 1..(e.ch - 1) : Complete(k)
              /\ e.op = "meta" => HasEvent(trace, "detail", e.ch, 0)
              /\ e.op = "dl_open" =>
                    /\ HasEvent(trace, "meta", e.ch, 0)
                    /\ e.f \in DOMAIN FilesOf(e.ch)
                    /\ e.path = DownloadPath(challenges[e.ch], FilesOf(e.ch)[e.f])
                    /\ \A f \in 1..(e.f - 1) : HasEvent(trace, "dl_done", e.ch, f)
              /\ e.op = "dl_done" => HasEvent(trace, "dl_open", e.ch, e.f)
              /\ e.op = "readme" => \A k \in DOMAIN challenges : Complete(k)
    /\ pc = "done" => HasEvent(trace, "readme", 0, 0)

\* A run over two challenges has completed, the second download of a
\* challenge included.
C8_Witness ==
    /\ pc = "done"
    /\ Len(challenges) >= 2
    /\ \E k \in DOMAIN challenges : HasEvent(trace, "dl_done", k, 2)

(* C9.  While a download whose response has a content-length L runs, the   *)
(* total of its progress task is L and the bytes reported as completed do  *)
(* not exceed the total.                                                   *)
C9_TotalBoundsCompleted ==
    (pc = "stream" /\ dl.hasLength)
    => /\ fileTask.total = dl.total_size
       /\ fileTask.completed <= fileTask.total

====
